---- MODULE Spec2Model ----
(***************************************************************************)
(* FeatherNode (karateclub/node_embedding/attributed/feathernode.py).      *)
(*                                                                         *)
(* One estimator instance: its constructor options, its stored embedding   *)
(* (the attribute _X) and the last call made on it.  fit is one action     *)
(* that runs the statements of lines 88-99 in order and stops at the first *)
(* statement that raises.                                                  *)
(*                                                                         *)
(* Numbers.  Real values are exact rationals <<n, d>>.  The values the SVD *)
(* library returns, and cos/sin of them, are uninterpreted terms (tuples   *)
(* tagged "svd", "mul", "cos", "sin"); a dense matrix entry downstream of  *)
(* cos/sin is a linear combination of such terms with rational             *)
(* coefficients (a function term -> rational, zero coefficients dropped).  *)
(* Matrices are sequences of rows; Python index i is TLA+ index i+1.       *)
(* An optional value (an attribute or local that may not be bound yet) is  *)
(* <<>> when unbound and <<v>> when bound to v.                            *)
(***************************************************************************)
EXTENDS Integers, Sequences, FiniteSets, TLC

VARIABLES self, _X, call, fits

vars == <<self, _X, call, fits>>

\* ------------------------------------------------------------------ bounds
MaxN == 3          \* graphs have 0..MaxN nodes
MaxF == 2          \* attribute matrices have 1..MaxF columns
MaxR == 2          \* reduction_dimensions ranges over 1..MaxR
MaxE == 2          \* eval_points ranges over 0..MaxE
MaxOrder == 2      \* order ranges over 0..MaxOrder

\* ------------------------------------------------------- exact arithmetic
RECURSIVE GCD(_, _)
GCD(a, b) == IF b = 0 THEN a ELSE GCD(b, a % b)

Abs(n) == IF n < 0 THEN -n ELSE n

\* the rational n/d (d # 0) in lowest terms with a positive denominator
Rat(n, d) ==
    LET g == GCD(Abs(n), Abs(d))
        s == IF d < 0 THEN -1 ELSE 1
    IN  <<(s * n) \div g, (s * d) \div g>>

RatAdd(p, q) == Rat(p[1] * q[2] + q[1] * p[2], p[2] * q[2])
RatMul(p, q) == Rat(p[1] * q[1], p[2] * q[2])
RatZero == <<0, 1>>
RatLeq(p, q) == p[1] * q[2] <= q[1] * p[2]
RatOne == <<1, 1>>

\* linear combinations of terms
LCZero == <<>>
LCUnit(t) == t :> RatOne
LCCoef(u, t) == IF t \in DOMAIN u THEN u[t] ELSE RatZero
LCNorm(u) == LET keep == {t \in DOMAIN u : u[t] # RatZero}
             IN  IF keep = {} THEN LCZero ELSE [t \in keep |-> u[t]]
LCAdd(u, v) == LCNorm([t \in (DOMAIN u) \cup (DOMAIN v) |-> RatAdd(LCCoef(u, t), LCCoef(v, t))])
LCScale(q, u) == LCNorm([t \in DOMAIN u |-> RatMul(q, u[t])])

\* ----------------------------------------------------------------- errors
NoErr == "none"
Ok(v) == [err |-> NoErr, val |-> v]
Raise(e) == [err |-> e, val |-> <<>>]

\* --------------------------------------------------------------- networkx
\* A graph is [n |-> N, edges |-> a set of two-element sets of nodes 0..N-1].
number_of_nodes(graph) == graph.n
degree(graph, node) == Cardinality({e \in graph.edges : node \in e})

\* nx.adjacency_matrix(graph, nodelist = range(N)): row and column i is node i
adjacency_matrix(graph) ==
    [i \in 1..graph.n |-> [j \in 1..graph.n |->
        IF {i - 1, j - 1} \in graph.edges THEN RatOne ELSE RatZero]]

\* ------------------------------------------------------------ numpy/scipy
Rows(M) == Len(M)
Cols(M) == IF Len(M) = 0 THEN 0 ELSE Len(M[1])

RECURSIVE SumRat(_, _)
SumRat(f, n) == IF n = 0 THEN RatZero ELSE RatAdd(SumRat(f, n - 1), f[n])

RECURSIVE SumLC(_, _)
SumLC(f, n) == IF n = 0 THEN LCZero ELSE LCAdd(SumLC(f, n - 1), f[n])

\* sparse . sparse: (D.dot(A))[i][j] = sum_k D[i][k] * A[k][j]
sparse_dot(D, A) ==
    [i \in 1..Rows(D) |-> [j \in 1..Cols(A) |->
        SumRat([k \in 1..Rows(A) |-> RatMul(D[i][k], A[k][j])], Rows(A))]]

\* sparse . dense: (A.dot(X))[i][c] = sum_j A[i][j] * X[j][c]
dense_dot(A, X) ==
    [i \in 1..Rows(A) |-> [c \in 1..Cols(X) |->
        SumLC([j \in 1..Rows(X) |-> LCScale(A[i][j], X[j][c])], Rows(X))]]

\* np.linspace(start, stop, num) with start, stop rationals
linspace(start, stop, num) ==
    IF num < 0 THEN Raise("ValueError")
    ELSE IF num = 1 THEN Ok(<<start>>)
    ELSE Ok([k \in 1..num |->
            RatAdd(start, RatMul(Rat(k - 1, num - 1),
                                 RatAdd(stop, RatMul(<<-1, 1>>, start))))])

\* X.ravel(): the entries of X in row-major order
ravel(X) == [p \in 1..(Rows(X) * Cols(X)) |->
                X[((p - 1) \div Cols(X)) + 1][((p - 1) % Cols(X)) + 1]]

\* np.outer(X, theta): both arguments are flattened first
outer(X, theta) ==
    LET a == ravel(X)
    IN  [p \in 1..Len(a) |-> [e \in 1..Len(theta) |-> <<"mul", a[p], theta[e]>>]]

\* X.reshape(n, -1): the row-major entries of X refolded into n rows
reshape(X, n) ==
    LET a == ravel(X)
    IN  IF n = 0 \/ Len(a) % n # 0 THEN Raise("ValueError")
        ELSE LET w == Len(a) \div n
             IN  Ok([i \in 1..n |-> [c \in 1..w |-> a[(i - 1) * w + c]]])

np_cos(X) == [i \in 1..Rows(X) |-> [c \in 1..Cols(X) |-> LCUnit(<<"cos", X[i][c]>>)]]
np_sin(X) == [i \in 1..Rows(X) |-> [c \in 1..Cols(X) |-> LCUnit(<<"sin", X[i][c]>>)]]

RECURSIVE hstack(_, _)
hstack(blocks, n) ==
    IF n = 1 THEN blocks[1]
    ELSE LET L == hstack(blocks, n - 1)
         IN  [i \in 1..Rows(L) |-> L[i] \o blocks[n][i]]

\* np.concatenate(blocks, axis=1)
concatenate(blocks) ==
    IF Len(blocks) = 0 THEN Raise("ValueError") ELSE Ok(hstack(blocks, Len(blocks)))

\* ------------------------------------------- sklearn.decomposition.TruncatedSVD
\* svd.fit(X); svd.transform(X): n_components must lie in 1..n_features; the
\* result has one row per sample and n_components columns, each entry a value
\* determined by the whole of X and by the estimator's parameters.
TruncatedSVD_fit_transform(X, n_components, n_iter, random_state) ==
    IF n_components < 1 \/ n_components > Cols(X) THEN Raise("ValueError")
    ELSE Ok([i \in 1..Rows(X) |-> [r \in 1..n_components |->
                <<"svd", X, n_components, n_iter, random_state, i - 1, r - 1>>]])

\* ------------------------------------------------------ karateclub.estimator
\* Estimator._check_graph: rejects the empty graph and a node of degree 0
_check_graph(graph) ==
    IF number_of_nodes(graph) = 0
       \/ \E node \in 0..(number_of_nodes(graph) - 1) : degree(graph, node) = 0
    THEN Raise("InvalidGraphError")
    ELSE Ok(<<>>)

\* Estimator.get_embedding: the stored matrix, StateError when there is none
get_embedding(stored) ==
    IF stored = <<>> THEN Raise("StateError") ELSE Ok(stored[1])

\* ------------------------------------------------------------- feathernode.py
\* the names the module binds at import time
module_globals == {"np", "nx", "coo_matrix", "Estimator", "TruncatedSVD", "FeatherNode"}

default_dimensions == 32
default_svd_iterations == 20
default_seed == 42
default_theta_max == Rat(5, 2)
linspace_start == Rat(1, 100)

__init__(dimensions, reduction_dimensions, svd_iterations, seed, theta_max, eval_points, order) ==
    [dimensions |-> dimensions,
     reduction_dimensions |-> reduction_dimensions,
     svd_iterations |-> svd_iterations,
     seed |-> seed,
     theta_max |-> theta_max,
     eval_points |-> eval_points,
     order |-> order]

_create_D_inverse(graph) ==
    LET N == number_of_nodes(graph)
        index == [k \in 1..N |-> k - 1]
    IN  IF \E node \in 0..(N - 1) : degree(graph, node) = 0
        THEN Raise("ZeroDivisionError")
        ELSE LET values == [k \in 1..N |-> Rat(1, degree(graph, k - 1))]
             IN  IF "sparse" \notin module_globals
                 THEN Raise("NameError")
                 ELSE Ok([i \in 1..N |-> [j \in 1..N |->
                            SumRat([k \in 1..N |->
                                       IF index[k] = i - 1 /\ index[k] = j - 1
                                       THEN values[k] ELSE RatZero], N)]])

_create_A_tilde(graph) ==
    LET A == adjacency_matrix(graph)
        D_inverse == _create_D_inverse(graph)
    IN  IF D_inverse.err # NoErr THEN D_inverse
        ELSE Ok(sparse_dot(D_inverse.val, A))

_create_reduced_features(s, X) ==
    TruncatedSVD_fit_transform(X, s.reduction_dimensions, s.svd_iterations, s.seed)

\* The frame of one fit call: the arguments, the locals (theta and A_tilde
\* optional until bound), the attribute _X as the call sees it, the error
\* raised (NoErr while running), and, for the record, the components entered
\* so far and the values X had after lines 89 and 94.
Frame(s, stored, graph, X) ==
    [self |-> s, graph |-> graph, X |-> X, theta |-> <<>>, A_tilde |-> <<>>,
     feature_blocks |-> <<>>, _X |-> stored, err |-> NoErr,
     ran |-> <<>>, X_r |-> <<>>, X_e |-> <<>>]

\* A statement of fit runs only if no earlier statement of the call raised:
\* each fit_NN below returns the frame unchanged once st.err is set.
Raised(st) == st.err # NoErr

\* fit without the call of line 88
fit_88_unchecked(st) == st

\* fit binding the attribute to an empty matrix before line 88
fit_88_presetting(st) ==
    LET r == _check_graph(st.graph)
        in == [st EXCEPT !._X = <<(<<>>)>>]
    IN  IF r.err # NoErr THEN [in EXCEPT !.err = r.err] ELSE in

fit_88(st) ==
    LET r == _check_graph(st.graph)
    IN  IF r.err # NoErr THEN [st EXCEPT !.err = r.err] ELSE st

\* line 89 assigning the reduced matrix to the attribute as well
fit_89_storing(st) ==
    IF Raised(st) THEN st
    ELSE LET r == _create_reduced_features(st.self, st.X)
             in == [st EXCEPT !.ran = Append(@, "Feature-Reducer")]
         IN  IF r.err # NoErr THEN [in EXCEPT !.err = r.err]
             ELSE [in EXCEPT !.X = r.val, !.X_r = <<r.val>>, !._X = <<r.val>>]

fit_89(st) ==
    IF Raised(st) THEN st
    ELSE LET r == _create_reduced_features(st.self, st.X)
             in == [st EXCEPT !.ran = Append(@, "Feature-Reducer")]
         IN  IF r.err # NoErr THEN [in EXCEPT !.err = r.err]
             ELSE [in EXCEPT !.X = r.val, !.X_r = <<r.val>>]

fit_90(st) ==
    IF Raised(st) THEN st
    ELSE LET r == linspace(linspace_start, st.self.theta_max, st.self.eval_points)
             in == [st EXCEPT !.ran = Append(@, "evaluation-points")]
         IN  IF r.err # NoErr THEN [in EXCEPT !.err = r.err]
             ELSE [in EXCEPT !.theta = <<r.val>>]

fit_91(st) ==
    IF Raised(st) THEN st
    ELSE LET r == _create_A_tilde(st.graph)
             in == [st EXCEPT !.ran = Append(@, "Degree-Normalizer")]
         IN  IF r.err # NoErr THEN [in EXCEPT !.err = r.err]
             ELSE [in EXCEPT !.A_tilde = <<r.val>>]

fit_92(st) ==
    IF Raised(st) THEN st
    ELSE [st EXCEPT !.X = outer(st.X, st.theta[1]),
                    !.ran = Append(@, "Spectral-Expander")]

fit_93(st) ==
    IF Raised(st) THEN st
    ELSE LET r == reshape(st.X, number_of_nodes(st.graph))
         IN  IF r.err # NoErr THEN [st EXCEPT !.err = r.err]
             ELSE [st EXCEPT !.X = r.val]

fit_94(st) ==
    IF Raised(st) THEN st
    ELSE LET r == concatenate(<<np_cos(st.X), np_sin(st.X)>>)
         IN  [st EXCEPT !.X = r.val, !.X_e = <<r.val>>]

fit_95(st) ==
    IF Raised(st) THEN st
    ELSE [st EXCEPT !.feature_blocks = <<>>, !.ran = Append(@, "Diffusion-Stacker")]

\* lines 96-98: the loop body, run for each element of range(order)
RECURSIVE fit_96(_, _)
fit_96(st, remaining) ==
    IF Raised(st) \/ remaining <= 0 THEN st
    ELSE LET X == dense_dot(st.A_tilde[1], st.X)
         IN  fit_96([st EXCEPT !.X = X, !.feature_blocks = Append(@, X)], remaining - 1)

fit_99(st) ==
    IF Raised(st) THEN st
    ELSE LET r == concatenate(st.feature_blocks)
         IN  IF r.err # NoErr THEN [st EXCEPT !.err = r.err]
             ELSE [st EXCEPT !._X = <<r.val>>]

\* FeatherNode.fit: the frame the call ends with
fit(s, stored, graph, X) ==
    fit_99(fit_96(fit_95(fit_94(fit_93(fit_92(fit_91(fit_90(fit_89(fit_88(
        Frame(s, stored, graph, X))))))))), s.order))

\* ------------------------------------------------------------------ inputs
Path(n) == {{k - 1, k} : k \in 1..(n - 1)}
Cycle(n) == IF n < 3 THEN Path(n) ELSE Path(n) \cup {{0, n - 1}}
Star(n) == {{0, k} : k \in 1..(n - 1)}
Complete(n) == {{a, b} : a, b \in 0..(n - 1)} \ {{a} : a \in 0..(n - 1)}

\* simple undirected graphs on nodes 0..N-1: paths, cycles, stars, complete
\* graphs, a path that leaves the last node isolated, and the edgeless graph
Shapes(n) == {Path(n), Cycle(n), Star(n), Complete(n), Path(n - 1), {}}
Graphs == UNION {{[n |-> n, edges |-> E] : E \in Shapes(n)} : n \in 0..MaxN}

\* identity-like attribute matrices with n rows: entry (i, f) is 1 on a
\* diagonal, shifted by 0 or 1 columns, and 0 elsewhere
AttributeMatrices(n) ==
    {[i \in 1..n |-> [f \in 1..F |-> IF f = ((i + k) % F) + 1 THEN 1 ELSE 0]] :
        F \in 1..MaxF, k \in 0..1}

ThetaMaxValues == {linspace_start, default_theta_max}

Configurations ==
    {__init__(d, R, default_svd_iterations, default_seed, t, E, o) :
        d \in {default_dimensions, default_dimensions + 1},
        R \in 1..MaxR, t \in ThetaMaxValues, E \in 0..MaxE, o \in 0..MaxOrder}

\* ----------------------------------------------------------------- actions
NoGraph == [n |-> 0, edges |-> {}]

Init ==
    /\ self \in Configurations
    /\ _X = <<>>
    /\ fits = [succeeded |-> FALSE, failed |-> FALSE]
    /\ call = [op |-> "__init__", graph |-> NoGraph, X |-> <<>>, err |-> NoErr,
               ret |-> <<>>, frame |-> <<>>]

\* fit(graph, X): _X is whatever the call left in the attribute; fits
\* remembers whether some fit call has returned normally, and whether some
\* fit call has raised
Fit ==
    \E graph \in Graphs :
        \E X \in AttributeMatrices(graph.n) :
            LET st == fit(self, _X, graph, X)
            IN  /\ _X' = st._X
                /\ fits' = [succeeded |-> fits.succeeded \/ st.err = NoErr,
                             failed |-> fits.failed \/ st.err # NoErr]
                /\ call' = [op |-> "fit", graph |-> graph, X |-> X, err |-> st.err,
                            ret |-> <<>>, frame |-> <<st>>]
                /\ UNCHANGED self

GetEmbedding ==
    LET r == get_embedding(_X)
    IN  /\ call' = [op |-> "get_embedding", graph |-> NoGraph, X |-> <<>>,
                    err |-> r.err,
                    ret |-> IF r.err = NoErr THEN <<r.val>> ELSE <<>>,
                    frame |-> <<>>]
        /\ UNCHANGED <<self, _X, fits>>

Next == Fit \/ GetEmbedding

Spec == Init /\ [][Next]_vars

\* ------------------------------------------------------------------ claims
IsFit == call.op = "fit"
IsGet == call.op = "get_embedding"
frame == call.frame[1]
R == self.reduction_dimensions
E == self.eval_points
N == call.graph.n
F == Cols(call.X)
Min(a, b) == IF a <= b THEN a ELSE b

HasIsolated(graph) == \E node \in 0..(graph.n - 1) : degree(graph, node) = 0
ValidGraph(graph) == graph.n >= 1 /\ ~HasIsolated(graph)
ValidOptions == self.order >= 1 /\ E >= 1 /\ ~RatLeq(self.theta_max, linspace_start)

\* a fit call whose input is valid in the sense of C1
ValidCall ==
    /\ IsFit
    /\ ValidGraph(call.graph)
    /\ Rows(call.X) = N /\ F >= R
    /\ E >= 1 /\ self.order >= 1

\* C1: for every valid input fit returns normally and stores an embedding
\* with N rows and order*2*R*E columns, whatever `dimensions` is.
C1_FitStoresShape ==
    ValidCall =>
        /\ call.err = NoErr
        /\ _X # <<>>
        /\ Rows(_X[1]) = N
        /\ Cols(_X[1]) = self.order * 2 * R * E

C3_FailedFitKeepsStored ==
    [][(call'.op = "fit" /\ call'.err # NoErr) => _X' = _X]_vars

C3_Witness ==
    /\ IsFit /\ call.err # NoErr
    /\ frame.X_r # <<>> /\ frame.theta # <<>>
    /\ _X = <<>>

\* C4: get_embedding fails with StateError while no fit has succeeded, and
\* returns the stored matrix once one has.
C4_GetEmbedding ==
    IsGet =>
        IF fits.succeeded
        THEN call.err = NoErr /\ _X # <<>> /\ call.ret = _X
        ELSE call.err = "StateError" /\ call.ret = <<>>

C4_Witness ==
    IsGet /\ fits.failed /\ ~fits.succeeded /\ call.err = "StateError"

\* C5: fit with order <= 0, eval_points < 1 or theta_max <= 0.01 raises
\* ConfigError before any component has run (stated for calls whose graph
\* and attribute matrix are valid, so that no other check can come first).
C5_ConfigRejectedFirst ==
    (IsFit /\ ValidGraph(call.graph) /\ F >= R /\ ~ValidOptions) =>
        call.err = "ConfigError" /\ frame.ran = <<>>

\* C6: fit with reduction_dimensions greater than F, or than min(N, F),
\* raises DimensionError and stores no embedding (stated for calls whose
\* graph and options are valid).
C6_DimensionRejected ==
    (IsFit /\ ValidGraph(call.graph) /\ ValidOptions /\ (R > F \/ R > Min(N, F))) =>
        call.err = "DimensionError" /\ _X = <<>>

\* C7: on a valid input the loop produces exactly `order` blocks, block 1 =
\* A_tilde . X_e, block k+1 = A_tilde . block k, and the stored embedding is
\* their concatenation: block k in columns (k-1)*M .. k*M-1, M = 2*R*E.
C7_DiffusionBlocks ==
    ValidCall =>
        LET blocks == frame.feature_blocks
            M == 2 * R * E
        IN  /\ Len(blocks) = self.order
            /\ frame.A_tilde # <<>> /\ frame.X_e # <<>>
            /\ blocks[1] = dense_dot(frame.A_tilde[1], frame.X_e[1])
            /\ \A k \in 1..(self.order - 1) :
                   blocks[k + 1] = dense_dot(frame.A_tilde[1], blocks[k])
            /\ _X # <<>>
            /\ Rows(_X[1]) = N /\ Cols(_X[1]) = self.order * M
            /\ \A k \in 1..self.order : \A i \in 1..N : \A c \in 1..M :
                   _X[1][i][(k - 1) * M + c] = blocks[k][i][c]

\* C8: the embedding a fit stores is the one a fresh instance with the same
\* options stores for the same graph and attribute matrix.
C8_FitDeterminedByInputs ==
    ValidCall =>
        /\ _X # <<>>
        /\ _X = fit(self, <<>>, call.graph, call.X)._X

\* C9: for a graph whose nodes all have degree >= 1 the Degree-Normalizer
\* returns the N x N matrix with entry (i, j) = A[i][j] / degree(i), every row
\* summing to 1, and the graph is unchanged.
C9_NormalizedAdjacency ==
    (IsFit /\ ValidGraph(call.graph) /\ F >= R) =>
        /\ frame.A_tilde # <<>>
        /\ Rows(frame.A_tilde[1]) = N /\ Cols(frame.A_tilde[1]) = N
        /\ \A i, j \in 0..(N - 1) :
               frame.A_tilde[1][i + 1][j + 1] =
                   Rat(IF {i, j} \in call.graph.edges THEN 1 ELSE 0, degree(call.graph, i))
        /\ \A i \in 1..N : SumRat(frame.A_tilde[1][i], N) = RatOne
        /\ frame.graph = call.graph

\* C10: X_e has N rows and 2*R*E columns; column r*E+e of row i is
\* cos(X_r[i][r]*theta[e]) and column R*E + r*E+e is sin(X_r[i][r]*theta[e]).
C10_ExpanderLayout ==
    ValidCall =>
        /\ frame.X_r # <<>> /\ frame.theta # <<>> /\ frame.X_e # <<>>
        /\ Rows(frame.X_e[1]) = N /\ Cols(frame.X_e[1]) = 2 * R * E
        /\ \A i \in 0..(N - 1) : \A r \in 0..(R - 1) : \A e \in 0..(E - 1) :
               LET v == <<"mul", frame.X_r[1][i + 1][r + 1], frame.theta[1][e + 1]>>
               IN  /\ frame.X_e[1][i + 1][r * E + e + 1] = LCUnit(<<"cos", v>>)
                   /\ frame.X_e[1][i + 1][R * E + r * E + e + 1] = LCUnit(<<"sin", v>>)

====
